---- MODULE Spec2Model ----
(***************************************************************************)
(* Pythagonal: the voxel world (source/world.py).                          *)
(*                                                                         *)
(*   World     flat uint8 buffer of WORLD_SIZE^3 block ids, checked and    *)
(*             unchecked get/set, numpy save/load                          *)
(*   WorldGen  generate_flat, generate_landscape, generate_tree            *)
(*   Ray       constructor and cast                                        *)
(*                                                                         *)
(* Real numbers are fixed-point rationals: a value is an integer numerator *)
(* over a denominator that is named where it is used.                      *)
(***************************************************************************)
EXTENDS Integers, Sequences, FiniteSets, TLC

VARIABLES
    voxels,     \* World.voxels: the buffer, index i of the array is voxels[i + 1]
    before,     \* the buffer the world held when the last call started
    last,       \* the last call: operation, arguments, return value or exception
    files,      \* the file system: path -> [exists, data]
    nops,       \* number of calls made so far
    gen,        \* the running WorldGen call: its arguments, draws and locals
    ray         \* the Ray object of a traversal

vars == <<voxels, before, last, files, nops, gen, ray>>

----------------------------------------------------------------------------
(* WORLD_SIZE and WORLD_LAYER (source/options.py) and Blocks.named          *)
(* (source/blocks.py), as the design document gives them, with the world   *)
(* scaled down to a side of 2.                                             *)

WORLD_SIZE == 2

WORLD_LAYER == WORLD_SIZE * WORLD_SIZE

\* WORLD_SIZE ** 3 (world.py:20, world.py:93)
WorldVolume == WORLD_SIZE * WORLD_SIZE * WORLD_SIZE

\* Blocks.named: block name -> block id
BlocksNamed ==
    [n \in {"grass_block", "dirt_block", "oak_logs", "oak_leaves"} |->
        CASE n = "grass_block" -> 1
          [] n = "dirt_block"  -> 2
          [] n = "oak_logs"    -> 3
          [] n = "oak_leaves"  -> 4]

----------------------------------------------------------------------------
(* Python values                                                           *)

\* a block id given as an int
IntValue(i) == [isstr |-> FALSE, name |-> "", id |-> i]

\* a block given by name
StrValue(s) == [isstr |-> TRUE, name |-> s, id |-> 0]

NoValue == IntValue(0)

NoPos == <<0, 0, 0>>

\* int() taken for the floor
PyInt_Floor(num, den) == num \div den

\* int(num / den) for den > 0: Python's int() drops the fraction, rounding
\* toward zero
PyInt(num, den) == IF num >= 0 THEN num \div den ELSE -((-num) \div den)

\* a path: np.save and np.load only look at whether it ends in ".npy"
Path(stem, npy) == [stem |-> stem, npy |-> npy]

NoPath == Path("", FALSE)

\* the record of a call (arg: an int argument). exc = "" when the call returned; retb is a bool return
\* value, reti an int one (0 and FALSE when the call returns None or raised)
Call(op, pos, value, path, arg, exc, retb, reti) ==
    [op |-> op, pos |-> pos, value |-> value, path |-> path, arg |-> arg,
     exc |-> exc, retb |-> retb, reti |-> reti]

\* np.zeros(n, dtype=np.uint8)
Zeros(n) == [i \in 1..n |-> 0]

\* ndarray[idx] on a one-dimensional array of length n: an index in -n..n-1
\* addresses a position, negative indices counting from the end; any other
\* index raises IndexError
IndexInRange(n, idx) == -n <= idx /\ idx < n

\* the position, counted from 0, that an index in range addresses
ArrayIndex(n, idx) == IF idx < 0 THEN idx + n ELSE idx

\* ndarray[idx] = value
ArrayStore(buf, idx, value) ==
    IF ~IndexInRange(Len(buf), idx)
    THEN [exc |-> "IndexError", buf |-> buf]
    ELSE [exc |-> "", buf |-> [buf EXCEPT ![ArrayIndex(Len(buf), idx) + 1] = value]]

\* ndarray[idx]
ArrayLoad(buf, idx) ==
    IF ~IndexInRange(Len(buf), idx)
    THEN [exc |-> "IndexError", val |-> 0]
    ELSE [exc |-> "", val |-> buf[ArrayIndex(Len(buf), idx) + 1]]

----------------------------------------------------------------------------
(* World                                                                   *)

\* position[2] * WORLD_LAYER + position[1] * WORLD_SIZE + position[0]
FlatIndex(position) ==
    position[3] * WORLD_LAYER + position[2] * WORLD_SIZE + position[1]

\* the bounds test with the upper bound off by one (<= WORLD_SIZE)
InBounds_UpperOffByOne(position) ==
    /\ -1 < position[1] /\ position[1] <= WORLD_SIZE
    /\ -1 < position[2] /\ position[2] <= WORLD_SIZE
    /\ -1 < position[3] /\ position[3] <= WORLD_SIZE

\* (-1 < position[0] < WORLD_SIZE) and ... and (-1 < position[2] < WORLD_SIZE)
InBounds(position) ==
    /\ -1 < position[1] /\ position[1] < WORLD_SIZE
    /\ -1 < position[2] /\ position[2] < WORLD_SIZE
    /\ -1 < position[3] /\ position[3] < WORLD_SIZE

\* World.set_unsafe as a function of the buffer: [exc, buf]
set_unsafe(buf, position, id) == ArrayStore(buf, FlatIndex(position), id)

\* set with the axes of the index swapped (x * WORLD_LAYER + y * WORLD_SIZE + z)
set_SwappedAxes(buf, position, value) ==
    IF value.isstr /\ value.name \notin DOMAIN BlocksNamed
    THEN [exc |-> "", ret |-> FALSE, buf |-> buf]
    ELSE
        LET id == IF value.isstr THEN BlocksNamed[value.name] ELSE value.id IN
        IF InBounds(position)
        THEN LET r == ArrayStore(buf, FlatIndex(<<position[3], position[2], position[1]>>), id) IN
             [exc |-> r.exc, ret |-> (r.exc = ""), buf |-> r.buf]
        ELSE [exc |-> "", ret |-> FALSE, buf |-> buf]

\* set with an unknown name taken for the empty block (Blocks.named.get(value, 0))
set_UnknownAsEmpty(buf, position, value) ==
    LET id == IF ~value.isstr THEN value.id
              ELSE IF value.name \in DOMAIN BlocksNamed THEN BlocksNamed[value.name]
              ELSE 0 IN
    IF InBounds(position)
    THEN LET r == ArrayStore(buf, FlatIndex(position), id) IN
         [exc |-> r.exc, ret |-> (r.exc = ""), buf |-> r.buf]
    ELSE [exc |-> "", ret |-> FALSE, buf |-> buf]

\* World.set as a function of the buffer: [exc, ret, buf]
set(buf, position, value) ==
    IF value.isstr /\ value.name \notin DOMAIN BlocksNamed
    THEN [exc |-> "", ret |-> FALSE, buf |-> buf]
    ELSE
        LET id == IF value.isstr THEN BlocksNamed[value.name] ELSE value.id IN
        IF InBounds(position)
        THEN LET r == ArrayStore(buf, FlatIndex(position), id) IN
             [exc |-> r.exc, ret |-> (r.exc = ""), buf |-> r.buf]
        ELSE [exc |-> "", ret |-> FALSE, buf |-> buf]

\* World.get_unsafe as a function of the buffer: [exc, val]
get_unsafe(buf, position) == ArrayLoad(buf, FlatIndex(position))

\* World.get as a function of the buffer: [exc, val]
get(buf, position) ==
    IF InBounds(position)
    THEN ArrayLoad(buf, FlatIndex(position))
    ELSE [exc |-> "", val |-> -1]

\* World.save: np.save(filename, self.voxels) writes the array, with its shape,
\* to filename, and appends ".npy" to a filename that does not end in it
NpySaveName(filename) == [filename EXCEPT !.npy = TRUE]

save(fs, buf, filename) ==
    [fs EXCEPT ![NpySaveName(filename)] = [exists |-> TRUE, data |-> buf]]

\* World.load as a function of the buffer: [exc, buf]. np.load opens filename
\* as given; the array read is bound to self.voxels before its shape is looked at
load(fs, buf, filename) ==
    IF ~fs[filename].exists
    THEN [exc |-> "FileNotFoundError", buf |-> buf]
    ELSE IF Len(fs[filename].data) # WorldVolume
    THEN [exc |-> "WorldGenSizeError", buf |-> fs[filename].data]
    ELSE [exc |-> "", buf |-> fs[filename].data]

----------------------------------------------------------------------------
(* WorldGen.generate_flat                                                  *)

\* the k-th position of "for y: for x: for z in range(level)", k from 0
FlatPosition(k, level) ==
    <<(k \div level) % WORLD_SIZE, k \div (level * WORLD_SIZE), k % level>>

\* the loop from its k-th iteration on: [exc, buf]. An exception ends the loop
RECURSIVE FlatLoop(_, _, _)
FlatLoop(buf, k, level) ==
    IF level <= 0 \/ k >= WORLD_SIZE * WORLD_SIZE * level
    THEN [exc |-> "", buf |-> buf]
    ELSE LET r == set_unsafe(buf, FlatPosition(k, level), 1) IN
         IF r.exc # "" THEN r ELSE FlatLoop(r.buf, k + 1, level)

\* WorldGen.generate_flat(level): [exc, buf], buf the voxels of the world returned
generate_flat(level) == FlatLoop(Zeros(WorldVolume), 0, level)

----------------------------------------------------------------------------
(* WorldGen.generate_tree                                                  *)
(* random.random() returns a real r = <<num, den>> in [0, 1).              *)

\* height = int(random.random() * 4) + 3
TrunkHeight(r) == PyInt(r[1] * 4, r[2]) + 3

\* the comparison with > for >=
LeavesFrom_Strict(i, r) == i * r[2] > r[1] * 2 + r[2]

\* i >= leaves_height, where leaves_height = random.random() * 2 + 1
LeavesFrom(i, r) == i * r[2] >= r[1] * 2 + r[2]

\* the four world.set calls of lines 182-185 on layer i
TreeLeaves(buf, pos, i) ==
    LET b1 == set(buf, <<pos[1], pos[2] + 1, pos[3] + i>>, StrValue("oak_leaves")).buf
        b2 == set(b1, <<pos[1], pos[2] - 1, pos[3] + i>>, StrValue("oak_leaves")).buf
        b3 == set(b2, <<pos[1] + 1, pos[2], pos[3] + i>>, StrValue("oak_leaves")).buf
    IN  set(b3, <<pos[1] - 1, pos[2], pos[3] + i>>, StrValue("oak_leaves")).buf

\* "for i in range(height)" from layer i on
RECURSIVE TreeLoop(_, _, _, _, _)
TreeLoop(buf, pos, i, height, rl) ==
    IF i >= height THEN buf
    ELSE LET b1 == set(buf, <<pos[1], pos[2], pos[3] + i>>, StrValue("oak_logs")).buf
             b2 == IF LeavesFrom(i, rl) THEN TreeLeaves(b1, pos, i) ELSE b1
         IN  TreeLoop(b2, pos, i + 1, height, rl)

\* WorldGen.generate_tree(world, pos) with the two draws rh and rl: the buffer
\* of the world afterwards
generate_tree(buf, pos, rh, rl) ==
    LET height == TrunkHeight(rh)
        b == TreeLoop(buf, pos, 0, height, rl)
    IN  set(b, <<pos[1], pos[2], pos[3] + height>>, StrValue("oak_leaves")).buf

----------------------------------------------------------------------------
(* WorldGen.generate_landscape                                             *)
(* height_map[y][x] is a real <<num, den>>; each entry is read once, by    *)
(* the iteration of its column, and is drawn there.                        *)

\* (height_map[y][x] - 0.5) * magnitude + level, as <<num, den>> with den > 0
ColumnValue(h, magnitude, level) ==
    <<(2 * h[1] - h[2]) * magnitude + 2 * h[2] * level, 2 * h[2]>>

\* height = int((height_map[y][x] - 0.5) * magnitude + level)
ColumnHeight(h, magnitude, level) ==
    LET v == ColumnValue(h, magnitude, level) IN PyInt(v[1], v[2])

\* the column loop with the two names swapped: dirt on top, grass below
RECURSIVE ColumnLoop_Swapped(_, _, _, _, _)
ColumnLoop_Swapped(buf, x, y, z, height) ==
    IF z >= height THEN buf
    ELSE LET name == IF z = height - 1 THEN "dirt_block" ELSE "grass_block" IN
         ColumnLoop_Swapped(set(buf, <<x, y, z>>, StrValue(name)).buf, x, y, z + 1, height)

\* "for z in range(height)" from z on: grass on top, dirt below
RECURSIVE ColumnLoop(_, _, _, _, _)
ColumnLoop(buf, x, y, z, height) ==
    IF z >= height THEN buf
    ELSE LET name == IF z = height - 1 THEN "grass_block" ELSE "dirt_block" IN
         ColumnLoop(set(buf, <<x, y, z>>, StrValue(name)).buf, x, y, z + 1, height)

\* random.random() > 0.9
TreeDrawn(r) == r[1] * 10 > r[2] * 9

----------------------------------------------------------------------------
(* Inputs                                                                  *)

\* calls per behaviour
MaxOps == 2

\* coordinates reach one cell past the world on either side
Coord == -1..WORLD_SIZE

Positions == Coord \X Coord \X Coord

Cells == {p \in Positions : InBounds(p)}

BlockIds == {0, 1, 255}

SetValues ==
    {IntValue(i) : i \in BlockIds} \cup
    {StrValue("grass_block"), StrValue("unknown_name")}

\* levels passed to generate_flat, from below 0 to past the world's side
Levels == -1..(WORLD_SIZE + 1)

Paths == {Path("debug", b) : b \in BOOLEAN}

NoFile == [exists |-> FALSE, data |-> <<>>]

NoFiles == [f \in Paths |-> NoFile]

\* what an earlier run may have left at saves/debug.npy: nothing, the save of a
\* world of this size, or the save of a build with another WORLD_SIZE
EarlierSaves ==
    {NoFile,
     [exists |-> TRUE, data |-> generate_flat(1).buf],
     [exists |-> TRUE, data |-> Zeros(WorldVolume - 1)]}

NoGen == [pc |-> "idle"]

\* a real vector, each component <<num, den>>
Vec(x, y, z) == <<x, y, z>>

\* Ray(origin, direction) (world.py:194-200)
RayObject(origin, direction) ==
    [pc |-> "constructed", origin |-> origin, direction |-> direction,
     integer_position |-> <<0, 0, 0>>,
     float_position |-> Vec(<<0, 1>>, <<0, 1>>, <<0, 1>>),
     length |-> <<0, 1>>,
     ret |-> ""]

NoRay == [RayObject(Vec(<<0, 1>>, <<0, 1>>, <<0, 1>>), <<0, 0, 0>>) EXCEPT !.pc = "none"]

\* ray origins: half a cell inside the column x = y = 0 and five cells below
\* the world, inside the world, and beside it
RayOrigins ==
    {Vec(<<1, 2>>, <<1, 2>>, <<-5, 1>>),
     Vec(<<1, 2>>, <<1, 2>>, <<1, 2>>),
     Vec(<<-5, 1>>, <<1, 2>>, <<1, 2>>)}

RayDirections ==
    {<<0, 0, 1>>, <<0, 0, -1>>, <<1, 0, 0>>, <<-1, 0, 0>>, <<0, 1, 0>>, <<0, -1, 0>>}

\* values of random.random(), as <<num, den>>
Draws == {<<0, 1>>, <<1, 4>>, <<1, 2>>, <<3, 4>>, <<19, 20>>}

\* values of height_map[y][x], as <<num, den>>
HeightSamples == {<<0, 1>>, <<1, 4>>, <<1, 2>>, <<3, 4>>}

\* (level, magnitude) passed to generate_landscape: column heights from below
\* 0 to past the world's side, among them negative values that are not whole
LandscapeArgs == {<<0, 6>>, <<1, 6>>, <<2, 6>>}

\* the columns in the order of "for y: for x", column k at (k % S, k // S)
Columns == 0..(WORLD_SIZE * WORLD_SIZE - 1)

\* base positions passed to generate_tree: inside the world, on its edges,
\* outside it, and so far below it that only the top of the tree reaches it
TreeBases == ((-2)..(WORLD_SIZE + 1)) \X ((-2)..(WORLD_SIZE + 1)) \X ((-7)..WORLD_SIZE)

----------------------------------------------------------------------------
(* The calls on a world                                                    *)

\* World(): a buffer of zeros (world.py:19-20)
Init ==
    /\ voxels = Zeros(WorldVolume)
    /\ before = Zeros(WorldVolume)
    /\ last = Call("World", NoPos, NoValue, NoPath, 0, "", FALSE, 0)
    /\ files = NoFiles
    /\ nops = 0
    /\ gen = NoGen
    /\ ray = NoRay

Set(position, value) ==
    /\ nops < MaxOps
    /\ LET r == set(voxels, position, value) IN
       /\ voxels' = r.buf
       /\ last' = Call("set", position, value, NoPath, 0, r.exc, r.ret, 0)
    /\ before' = voxels
    /\ nops' = nops + 1
    /\ UNCHANGED <<files, gen, ray>>

SetUnsafe(position, id) ==
    /\ nops < MaxOps
    /\ LET r == set_unsafe(voxels, position, id) IN
       /\ voxels' = r.buf
       /\ last' = Call("set_unsafe", position, IntValue(id), NoPath, 0, r.exc, FALSE, 0)
    /\ before' = voxels
    /\ nops' = nops + 1
    /\ UNCHANGED <<files, gen, ray>>

Get(position) ==
    /\ nops < MaxOps
    /\ LET r == get(voxels, position) IN
       last' = Call("get", position, NoValue, NoPath, 0, r.exc, FALSE, r.val)
    /\ before' = voxels
    /\ nops' = nops + 1
    /\ UNCHANGED <<voxels, files, gen, ray>>

GetUnsafe(position) ==
    /\ nops < MaxOps
    /\ LET r == get_unsafe(voxels, position) IN
       last' = Call("get_unsafe", position, NoValue, NoPath, 0, r.exc, FALSE, r.val)
    /\ before' = voxels
    /\ nops' = nops + 1
    /\ UNCHANGED <<voxels, files, gen, ray>>

\* world = WorldGen.generate_flat(level): the world is replaced when the call returns
GenerateFlat(level) ==
    /\ nops < MaxOps
    /\ LET r == generate_flat(level) IN
       /\ voxels' = IF r.exc = "" THEN r.buf ELSE voxels
       /\ last' = Call("generate_flat", NoPos, NoValue, NoPath, level, r.exc, FALSE, 0)
    /\ before' = voxels
    /\ nops' = nops + 1
    /\ UNCHANGED <<files, gen, ray>>

Save(filename) ==
    /\ nops < MaxOps
    /\ files' = save(files, voxels, filename)
    /\ last' = Call("save", NoPos, NoValue, filename, 0, "", FALSE, 0)
    /\ before' = voxels
    /\ nops' = nops + 1
    /\ UNCHANGED <<voxels, gen, ray>>

Load(filename) ==
    /\ nops < MaxOps
    /\ LET r == load(files, voxels, filename) IN
       /\ voxels' = r.buf
       /\ last' = Call("load", NoPos, NoValue, filename, 0, r.exc, FALSE, 0)
    /\ before' = voxels
    /\ nops' = nops + 1
    /\ UNCHANGED <<files, gen, ray>>

NextGrid ==
    \/ \E p \in Positions, v \in SetValues : Set(p, v)
    \/ \E p \in Positions, i \in BlockIds : SetUnsafe(p, i)
    \/ \E p \in Positions : Get(p)
    \/ \E p \in Positions : GetUnsafe(p)
    \/ \E l \in Levels : GenerateFlat(l)

SpecGrid == Init /\ [][NextGrid]_vars

\* the world of a session: the saves directory is as an earlier run left it
InitSession ==
    /\ voxels = Zeros(WorldVolume)
    /\ before = Zeros(WorldVolume)
    /\ last = Call("World", NoPos, NoValue, NoPath, 0, "", FALSE, 0)
    /\ \E f \in EarlierSaves : files = [NoFiles EXCEPT ![Path("debug", TRUE)] = f]
    /\ nops = 0
    /\ gen = NoGen
    /\ ray = NoRay

Next ==
    \/ \E p \in Positions, v \in SetValues : Set(p, v)
    \/ \E p \in Positions, i \in BlockIds : SetUnsafe(p, i)
    \/ \E p \in Positions : Get(p)
    \/ \E p \in Positions : GetUnsafe(p)
    \/ \E l \in Levels : GenerateFlat(l)
    \/ \E f \in Paths : Save(f)
    \/ \E f \in Paths : Load(f)

Spec == InitSession /\ [][Next]_vars

----------------------------------------------------------------------------
(* A call of WorldGen.generate_landscape, one column per step              *)

\* world = World() (world.py:153), the arguments drawn
InitLandscape ==
    /\ voxels = Zeros(WorldVolume)
    /\ before = Zeros(WorldVolume)
    /\ last = Call("generate_landscape", NoPos, NoValue, NoPath, 0, "", FALSE, 0)
    /\ files = NoFiles
    /\ nops = 0
    /\ ray = NoRay
    /\ \E a \in LandscapeArgs :
          gen = [pc |-> "columns", level |-> a[1], magnitude |-> a[2], k |-> 0,
                 value |-> [c \in Columns |-> <<0, 1>>],
                 height |-> [c \in Columns |-> 0],
                 tree |-> [c \in Columns |-> FALSE]]

\* the body of "for x" (world.py:156-163) for column gen.k: h is
\* height_map[y][x], rt the draw that decides on a tree, rh and rl the draws of
\* generate_tree
LandscapeColumn(h, rt, rh, rl) ==
    /\ gen.pc = "columns"
    /\ gen.k < WORLD_SIZE * WORLD_SIZE
    /\ LET x == gen.k % WORLD_SIZE
           y == gen.k \div WORLD_SIZE
           height == ColumnHeight(h, gen.magnitude, gen.level)
           filled == ColumnLoop(voxels, x, y, 0, height)
       IN  /\ voxels' = IF TreeDrawn(rt)
                        THEN generate_tree(filled, <<x, y, height>>, rh, rl)
                        ELSE filled
           /\ gen' = [gen EXCEPT !.k = @ + 1,
                                 !.value[gen.k] = ColumnValue(h, gen.magnitude, gen.level),
                                 !.height[gen.k] = height,
                                 !.tree[gen.k] = TreeDrawn(rt)]
    /\ before' = voxels
    /\ UNCHANGED <<last, files, nops, ray>>

\* return world (world.py:168)
LandscapeReturn ==
    /\ gen.pc = "columns"
    /\ gen.k = WORLD_SIZE * WORLD_SIZE
    /\ gen' = [gen EXCEPT !.pc = "returned"]
    /\ UNCHANGED <<voxels, before, last, files, nops, ray>>

NextLandscape ==
    \/ \E h \in HeightSamples, rt \in Draws :
          \E rh, rl \in (IF TreeDrawn(rt) THEN Draws ELSE {<<0, 1>>}) :
              LandscapeColumn(h, rt, rh, rl)
    \/ LandscapeReturn

SpecLandscape == InitLandscape /\ [][NextLandscape]_vars

----------------------------------------------------------------------------
(* A call of WorldGen.generate_tree on a flat world                        *)

InitTree ==
    /\ \E l \in 0..WORLD_SIZE :
          /\ voxels = generate_flat(l).buf
          /\ before = voxels
          /\ last = Call("generate_flat", NoPos, NoValue, NoPath, l, "", FALSE, 0)
    /\ files = NoFiles
    /\ nops = 0
    /\ gen = [pc |-> "tree", rh |-> <<0, 1>>, rl |-> <<0, 1>>]
    /\ ray = NoRay

GenerateTree(pos, rh, rl) ==
    /\ gen.pc = "tree"
    /\ voxels' = generate_tree(voxels, pos, rh, rl)
    /\ before' = voxels
    /\ last' = Call("generate_tree", pos, NoValue, NoPath, TrunkHeight(rh), "", FALSE, 0)
    /\ gen' = [pc |-> "done", rh |-> rh, rl |-> rl]
    /\ UNCHANGED <<files, nops, ray>>

NextTree == \E pos \in TreeBases, rh \in Draws, rl \in Draws : GenerateTree(pos, rh, rl)

SpecTree == InitTree /\ [][NextTree]_vars

----------------------------------------------------------------------------
(* A ray cast through a world that set calls have put blocks into          *)

RayInit(origin, direction) ==
    /\ ray.pc = "none"
    /\ ray' = RayObject(origin, direction)
    /\ UNCHANGED <<voxels, before, last, files, nops, gen>>

\* Ray.cast(world) (world.py:202-206): the body is the docstring alone, so the
\* call changes nothing and returns None
RayCast ==
    /\ ray.pc = "constructed"
    /\ ray' = [ray EXCEPT !.pc = "returned", !.ret = "None"]
    /\ UNCHANGED <<voxels, before, last, files, nops, gen>>

NextRay ==
    \/ \E p \in Cells, i \in BlockIds : Set(p, IntValue(i))
    \/ \E o \in RayOrigins, d \in RayDirections : RayInit(o, d)
    \/ RayCast

SpecRay == Init /\ [][NextRay]_vars

----------------------------------------------------------------------------
(* Properties of World                                                     *)

\* all three coordinates in [0, S)
PosInWorld(pos) == \A i \in 1..3 : 0 <= pos[i] /\ pos[i] < WORLD_SIZE

\* the cell (x, y, z) of a buffer, by the index formula z*S*S + y*S + x
CellAt(buf, x, y, z) == buf[z * WORLD_SIZE * WORLD_SIZE + y * WORLD_SIZE + x + 1]

Side == 0..(WORLD_SIZE - 1)

\* the block id a value stands for: the id itself, or the id registered for a name
IsBlock(value) == ~value.isstr \/ value.name \in DOMAIN BlocksNamed

BlockOf(value) == IF value.isstr THEN BlocksNamed[value.name] ELSE value.id

\* C1: after set(pos, v) with pos inside the world and v a block id or a
\* registered name, set has returned True and get(pos) returns v, whatever
\* set, set_unsafe (and get, generate_flat) calls came before.
C1_SetThenGet ==
    (last.op = "set" /\ PosInWorld(last.pos) /\ IsBlock(last.value)) =>
        /\ last.exc = ""
        /\ last.retb = TRUE
        /\ get(voxels, last.pos) = [exc |-> "", val |-> BlockOf(last.value)]

\* a set by name inside a world that earlier calls have written to
C1_Witness ==
    /\ last.op = "set" /\ PosInWorld(last.pos)
    /\ last.value = StrValue("grass_block")
    /\ before # Zeros(WorldVolume)
    /\ last.retb = TRUE
    /\ get(voxels, last.pos).val = 1

\* C2: with a coordinate < 0 or >= S, get returns -1, which no get inside the
\* world returns, and set returns False and leaves the buffer as it was.
C2_OutOfBounds ==
    /\ (last.op = "get" /\ ~PosInWorld(last.pos)) =>
            (last.exc = "" /\ last.reti = -1)
    /\ (last.op = "get" /\ PosInWorld(last.pos)) =>
            (last.exc = "" /\ last.reti # -1)
    /\ (last.op = "set" /\ ~PosInWorld(last.pos)) =>
            (last.exc = "" /\ last.retb = FALSE /\ voxels = before)

\* a set of a valid block one cell past the upper edge of a world that is not empty
C2_Witness ==
    /\ last.op = "set" /\ last.pos = <<WORLD_SIZE, 0, 0>>
    /\ last.value = IntValue(255)
    /\ last.retb = FALSE
    /\ voxels # Zeros(WorldVolume)
    /\ voxels = before

\* C3: set with a name that is not registered returns False, raises nothing
\* and leaves every cell as it was, wherever the position lies.
C3_UnknownName ==
    (last.op = "set" /\ last.value.isstr /\ last.value.name \notin DOMAIN BlocksNamed) =>
        (last.exc = "" /\ last.retb = FALSE /\ voxels = before)

\* a set by an unknown name at a position inside the world
C3_Witness ==
    /\ last.op = "set" /\ PosInWorld(last.pos)
    /\ last.value = StrValue("unknown_name")
    /\ last.retb = FALSE
    /\ voxels = before

\* C4: the buffer of the world always holds exactly S^3 cells, also after a
\* load that fails with the size-mismatch error.
C4_BufferLength == Len(voxels) = WorldVolume

\* C5: load(path) right after save(path) finds the file and leaves the buffer
\* equal to the one saved; a load of stored data of another shape raises
\* WorldGenSizeError, and FileNotFoundError is raised only when there is no
\* file at path.
C5_SaveThenLoad ==
    /\ [][(last.op = "save" /\ last'.op = "load" /\ last'.path = last.path) =>
            (last'.exc # "FileNotFoundError" /\ voxels' = voxels)]_vars
    /\ [](last.op = "load" =>
            /\ (files[last.path].exists /\ Len(files[last.path].data) # WorldVolume)
                    => last.exc = "WorldGenSizeError"
            /\ last.exc = "FileNotFoundError" <=> ~files[last.path].exists)

\* C6: generate_flat(level) returns, for every level, a grid whose cells with
\* z < level hold the ground id 1 and whose other cells hold 0.
C6_FlatGrid ==
    last.op = "generate_flat" =>
        /\ last.exc = ""
        /\ \A x \in Side, y \in Side, z \in Side :
              CellAt(voxels, x, y, z) = IF z < last.arg THEN 1 ELSE 0


\* C8 (with the sample's block in the last cell of the column x = y = 0): a
\* ray cast from (0.5, 0.5, -5) along (0, 0, 1) through a world whose only
\* block is at (0, 0, S-1) returns the ray, at cell (0, 0, S-1) with length
\* 5 + (S-1).
C8_RayHit ==
    (/\ ray.pc = "returned"
     /\ ray.origin = Vec(<<1, 2>>, <<1, 2>>, <<-5, 1>>)
     /\ ray.direction = <<0, 0, 1>>
     /\ \A x \in Side, y \in Side, z \in Side :
           CellAt(voxels, x, y, z) # 0 <=> <<x, y, z>> = <<0, 0, WORLD_SIZE - 1>>) =>
        /\ ray.ret = "ray"
        /\ ray.integer_position = <<0, 0, WORLD_SIZE - 1>>
        /\ ray.length = <<5 + (WORLD_SIZE - 1), 1>>

----------------------------------------------------------------------------
(* Properties of WorldGen                                                  *)

Grass == BlocksNamed["grass_block"]

Dirt == BlocksNamed["dirt_block"]

Logs == BlocksNamed["oak_logs"]

Leaves == BlocksNamed["oak_leaves"]

\* the column at (x, y) in the order of the generation loop
ColumnOf(x, y) == y * WORLD_SIZE + x

Filled(x, y) == {z \in Side : CellAt(voxels, x, y, z) # 0}

\* the highest of a non-empty set of integers
Highest(S) == CHOOSE z \in S : \A w \in S : w <= z

\* grass only on the topmost filled cell, dirt everywhere below it, and a
\* column of height <= 0 empty
GrassOnTop(x, y) ==
    /\ \A z \in Side : CellAt(voxels, x, y, z) = Grass =>
          /\ z = Highest(Filled(x, y))
          /\ \A w \in 0..(z - 1) : CellAt(voxels, x, y, w) = Dirt
    /\ gen.height[ColumnOf(x, y)] <= 0 => Filled(x, y) = {}

\* C7 as stated: in the grid generate_landscape returns, every column has its
\* grass only on its topmost filled cell and dirt in every cell below the
\* grass, and a column of height <= 0 is empty.
C7_GrassOnTop ==
    gen.pc = "returned" => \A x \in Side, y \in Side : GrassOnTop(x, y)

\* C7 as amended: in the grid generate_landscape returns, grass occurs only at
\* z = height - 1 of its column, the top of the terrain fill; from z = height
\* up a column holds only air, oak_logs and oak_leaves (so a column of height
\* <= 0 holds no grass and no dirt); below z = height - 1 it holds dirt, or
\* oak_leaves where the tree of an adjacent column has overwritten it. When no
\* column draws a tree, C7 holds as stated.
C7_GrassOnTerrainTop ==
    gen.pc = "returned" =>
        /\ \A x \in Side, y \in Side, z \in Side :
              LET H == gen.height[ColumnOf(x, y)]
                  c == CellAt(voxels, x, y, z)
              IN  /\ c = Grass => z = H - 1
                  /\ z >= H => c \in {0, Logs, Leaves}
                  /\ z < H - 1 => c \in {Dirt, Leaves}
        /\ (\A k \in Columns : ~gen.tree[k]) =>
              \A x \in Side, y \in Side : GrassOnTop(x, y)

\* a returned grid with a column whose grass lies on a cell that the tree of
\* an adjacent column has turned from dirt into leaves
C7_Witness ==
    /\ gen.pc = "returned"
    /\ \E x \in Side, y \in Side :
          /\ CellAt(voxels, x, y, 1) = Grass
          /\ CellAt(voxels, x, y, 0) = Leaves

\* C9 as stated: the height of every column equals
\* floor((height_map[y][x] - 0.5) * magnitude + level).
C9_HeightIsFloor ==
    \A k \in Columns : k < gen.k =>
        LET v == gen.value[k]
            H == gen.height[k]
        IN  v[2] * H <= v[1] /\ v[1] < v[2] * (H + 1)

\* C9 as amended: the height of every column is the real value
\* (height_map[y][x] - 0.5) * magnitude + level rounded toward zero (its floor
\* when the value is >= 0, its ceiling when it is < 0); right after the
\* column's iteration the grass lies at z = height - 1 and the base of the
\* column's tree, if one was drawn, at z = height, where these are in the world.
C9_HeightIsTruncation ==
    \A k \in Columns : k < gen.k =>
        LET v == gen.value[k]
            H == gen.height[k]
            x == k % WORLD_SIZE
            y == k \div WORLD_SIZE
        IN  /\ v[1] >= 0 => (v[2] * H <= v[1] /\ v[1] < v[2] * (H + 1))
            /\ v[1] <= 0 => (v[2] * (H - 1) < v[1] /\ v[1] <= v[2] * H)
            /\ (k = gen.k - 1 /\ H - 1 \in Side) => CellAt(voxels, x, y, H - 1) = Grass
            /\ (k = gen.k - 1 /\ gen.tree[k] /\ H \in Side) => CellAt(voxels, x, y, H) = Logs

\* a column whose real height is negative and not whole, with a tree on it
C9_Witness ==
    \E k \in Columns :
        /\ k = gen.k - 1
        /\ gen.value[k][1] < 0
        /\ gen.value[k][1] % gen.value[k][2] # 0
        /\ gen.tree[k]
        /\ gen.height[k] = 0
        /\ CellAt(voxels, k % WORLD_SIZE, k \div WORLD_SIZE, 0) = Logs

\* |a - b|
Dist(a, b) == IF a >= b THEN a - b ELSE b - a

\* C10: generate_tree, for every base position and every draw, picks a trunk
\* height h in 3..6, raises nothing, and leaves the world with logs on the
\* cells (x, y, z+i), 0 <= i < h, leaves on the four cardinal neighbours of the
\* layers i >= leaves_height, one leaf on (x, y, z+h), and every other cell as
\* it was; cells of the tree outside the world are skipped.
C10_TreeFootprint ==
    last.op = "generate_tree" =>
        LET px == last.pos[1]
            py == last.pos[2]
            pz == last.pos[3]
            h == last.arg
        IN  /\ h \in 3..6
            /\ last.exc = ""
            /\ Len(voxels) = WorldVolume
            /\ \A x \in Side, y \in Side, z \in Side :
                  CellAt(voxels, x, y, z) =
                    IF x = px /\ y = py /\ z - pz \in 0..(h - 1) THEN Logs
                    ELSE IF x = px /\ y = py /\ z - pz = h THEN Leaves
                    ELSE IF /\ Dist(x, px) + Dist(y, py) = 1
                            /\ z - pz \in 0..(h - 1)
                            /\ (z - pz - 1) * gen.rl[2] >= 2 * gen.rl[1]
                         THEN Leaves
                    ELSE CellAt(before, x, y, z)

\* a tree on the edge of a world that is not empty: one of its leaves lies in
\* the world, the opposite one outside
C10_Witness ==
    /\ last.op = "generate_tree"
    /\ last.pos = <<WORLD_SIZE - 1, 0, 0>>
    /\ before # Zeros(WorldVolume)
    /\ CellAt(voxels, WORLD_SIZE - 2, 0, 1) = Leaves
    /\ CellAt(voxels, WORLD_SIZE - 1, 0, 0) = Logs

====
